---------------------------- MODULE Spec2Model ----------------------------
(***************************************************************************)
(* Model of the sequence ADT of Sequence.cpp (namespace CS3358_FA2017).    *)
(*                                                                         *)
(* A sequence object is a record                                           *)
(*     [data, used, current_index, capacity]                               *)
(* where data is the dynamic array the member pointer data points to: a    *)
(* function from 0 .. n-1 (n the number of slots that were allocated) to   *)
(* values.  Indices are the source's 0-based indices.  capacity is the     *)
(* member variable, kept apart from the number of allocated slots because  *)
(* the code assigns the one before it allocates the other.                 *)
(*                                                                         *)
(* Two programs are specified.  Spec is a program with one object, "a",    *)
(* on which every member function is called.  SpecPair is a program with   *)
(* two objects, "a" and "b", so that the copy constructor and operator=    *)
(* have a source and a target; its arrays are kept smaller.                *)
(***************************************************************************)
EXTENDS Integers, Sequences, FiniteSets

\* Largest capacity the model lets an array reach in the program with one
\* object (resize requests and growth beyond it are not taken).
MaxCap == 6

\* The same for the program with two objects.
MaxCapPair == 2

\* value_type: two distinguishable items are enough to see order.
Values == {1, 2}

Objs == {"a", "b"}

Other(o) == IF o = "a" THEN "b" ELSE "a"

VARIABLES
    seq,      \* seq[o]: the members of object o, for the objects alive
    halted,   \* "none", or why the program has stopped
    last,     \* the last member function called: [op, obj, arg]
    copied    \* an object was produced from the other one (copy constructor
              \* or assignment from the other object)

vars == <<seq, halted, last, copied>>

----------------------------------------------------------------------------
(* Arrays *)

\* The possible contents of n slots whose value is indeterminate
\* (memory returned by new value_type[n] and not yet written), for the
\* slots lo .. n-1.
Indeterminate(lo, n) == [lo .. n-1 -> Values]

\* Number of slots allocated for array d.
Slots(d) == Cardinality(DOMAIN d)

\* The items of the sequence, data[0] .. data[used-1], as a TLA+ sequence.
Contents(s) == [i \in 1 .. s.used |-> s.data[i-1]]

----------------------------------------------------------------------------
(* CONSTANT MEMBER FUNCTIONS *)

size(s) == s.used

is_item(s) == s.current_index # s.used

current(s) == s.data[s.current_index]

\* The assert compiled out.
assert_Disabled(s) == TRUE

\* assert(is_item()) of advance, remove_current and current.
assert_is_item(s) == is_item(s)


----------------------------------------------------------------------------
(* Array helpers *)

\* new value_type[n]: n slots; junk gives the indeterminate content of the
\* slots the caller's copy loop does not overwrite (the others are written
\* before they are read, so their first content is not enumerated).
new_array(n, junk) ==
    [index \in 0 .. n-1 |-> IF index \in DOMAIN junk THEN junk[index] ELSE 1]

\* for (index = 0; index < n; ++index) dst[index] = src[index];
RECURSIVE copy_items(_, _, _, _)
copy_items(dst, src, index, n) ==
    IF index < n
    THEN copy_items([dst EXCEPT ![index] = src[index]], src, index + 1, n)
    ELSE dst

\* The array d as a function body starts on it: m = [data, oob, written,
\* read], with the stores made past the end of the array (oob) and the
\* indices the body has stored to (written) and loaded from (read).
memory(d) == [data |-> d, oob |-> <<>>, written |-> {}, read |-> {}]

\* One assignment data[index] = value on memory m: a store to a slot of
\* the array updates it, a store past its end is recorded in oob as
\* <<index, value>> (the array has no such slot).
store(m, index, value) ==
    IF index \in DOMAIN m.data
    THEN [m EXCEPT !.data[index] = value, !.written = @ \cup {index}]
    ELSE [m EXCEPT !.oob = Append(@, <<index, value>>),
                   !.written = @ \cup {index}]

\* The load of data[index] recorded.
load(m, index) == [m EXCEPT !.read = @ \cup {index}]

\* for (index = from; index > stop; --index) data[index] = data[index-1];
RECURSIVE shift_right(_, _, _)
shift_right(m, index, stop) ==
    IF index > stop
    THEN shift_right(store(load(m, index - 1), index, m.data[index - 1]),
                     index - 1, stop)
    ELSE m

\* for (index = from; index < used-1; ++index) data[index] = data[index+1];
RECURSIVE shift_left(_, _, _)
shift_left(d, index, last_index) ==
    IF index < last_index
    THEN shift_left([d EXCEPT ![index] = d[index + 1]], index + 1, last_index)
    ELSE d

----------------------------------------------------------------------------
(* CONSTRUCTORS *)

\* The constructor without its clamp to 1.
ctor_capacity_NoClamp(initial_capacity) == initial_capacity

\* sequence::sequence(size_type initial_capacity)
ctor_capacity(initial_capacity) ==
    IF initial_capacity < 1 THEN 1 ELSE initial_capacity

sequence_ctor(initial_capacity, junk) ==
    [used          |-> 0,
     current_index |-> 0,
     capacity      |-> ctor_capacity(initial_capacity),
     data          |-> new_array(ctor_capacity(initial_capacity), junk)]

\* sequence::sequence(const sequence& source)
copy_ctor(source, junk) ==
    [used          |-> source.used,
     current_index |-> source.current_index,
     capacity      |-> source.capacity,
     data          |-> copy_items(new_array(source.capacity, junk),
                                  source.data, 0, source.used)]

----------------------------------------------------------------------------
(* MODIFICATION MEMBER FUNCTIONS *)

\* resize_capacity without the clamp to used.
resize_capacity_NoUsedClamp(s, new_capacity) ==
    IF new_capacity < 1 THEN 1 ELSE new_capacity

\* Lines 85-87 of resize: the capacity the member is set to.
resize_capacity(s, new_capacity) ==
    LET nc == IF new_capacity < 1 THEN 1 ELSE new_capacity
    IN  IF nc < s.used THEN s.used ELSE nc

\* resize whose copy loop stops one item early.
resize_CopiesOneLess(s, new_capacity, junk) ==
    LET cap       == resize_capacity(s, new_capacity)
        temp_data == copy_items(new_array(cap, junk), s.data, 0, s.used - 1)
    IN  [s EXCEPT !.capacity = cap, !.data = temp_data]

\* sequence::resize when the allocation succeeds.
resize(s, new_capacity, junk) ==
    LET cap       == resize_capacity(s, new_capacity)
        temp_data == copy_items(new_array(cap, junk), s.data, 0, s.used)
    IN  [s EXCEPT !.capacity = cap, !.data = temp_data]

\* sequence::resize when new value_type[capacity] throws std::bad_alloc at
\* line 90: the members as the exception leaves them.
resize_bad_alloc(s, new_capacity) ==
    [s EXCEPT !.capacity = resize_capacity(s, new_capacity)]

\* start that leaves the cursor where it is.
start_KeepsCursor(s) == s

\* sequence::start
start(s) == [s EXCEPT !.current_index = 0]

\* sequence::advance, past its assert
advance(s) == [s EXCEPT !.current_index = s.current_index + 1]

\* Growth by one slot.
grown_capacity_PlusOne(s) == s.capacity + 1

\* size_type(1.25 * capacity) + 1
grown_capacity(s) == (5 * s.capacity) \div 4 + 1

\* The growth step of insert and attach (lines 132, 166).
needs_growth(s) == s.used = s.capacity

grow(s, junk) ==
    IF needs_growth(s) THEN resize(s, grown_capacity(s), junk) ELSE s

\* insert_item without current_index = 0 when there is no current item.
insert_item_KeepsCursor(g, entry) ==
    LET target == g.current_index
        m      == shift_right(memory(g.data), g.used + 1, target)
        w      == store(m, target, entry)
    IN  [s   |-> [g EXCEPT !.current_index = target,
                           !.data = w.data,
                           !.used = g.used + 1],
         oob |-> w.oob, written |-> w.written, read |-> w.read]

\* sequence::insert after the growth step.  The result is [s, oob, written,
\* read]: the object when the call returns, the stores made past the end
\* of data, and the indices of data stored to and loaded from.
insert_item(g, entry) ==
    LET target == IF ~is_item(g) THEN 0 ELSE g.current_index
        m      == shift_right(memory(g.data), g.used + 1, target)
        w      == store(m, target, entry)
    IN  [s   |-> [g EXCEPT !.current_index = target,
                           !.data = w.data,
                           !.used = g.used + 1],
         oob |-> w.oob, written |-> w.written, read |-> w.read]

insert(s, entry, junk) == insert_item(grow(s, junk), entry)

\* attach_item that does not move current_index past the current item.
attach_item_BeforeCurrent(g, entry) ==
    IF ~is_item(g)
    THEN LET w == store(memory(g.data), g.current_index, entry)
         IN  [s   |-> [g EXCEPT !.data = w.data, !.used = g.used + 1],
              oob |-> w.oob, written |-> w.written, read |-> w.read]
    ELSE LET target == g.current_index
             m      == shift_right(memory(g.data), g.used + 1, target)
             w      == store(m, target, entry)
         IN  [s   |-> [g EXCEPT !.current_index = target,
                                !.data = w.data,
                                !.used = g.used + 1],
              oob |-> w.oob, written |-> w.written, read |-> w.read]

\* sequence::attach after the growth step, as insert_item.
attach_item(g, entry) ==
    IF ~is_item(g)
    THEN LET w == store(memory(g.data), g.current_index, entry)
         IN  [s   |-> [g EXCEPT !.data = w.data, !.used = g.used + 1],
              oob |-> w.oob, written |-> w.written, read |-> w.read]
    ELSE LET target == g.current_index + 1
             m      == shift_right(memory(g.data), g.used + 1, target)
             w      == store(m, target, entry)
         IN  [s   |-> [g EXCEPT !.current_index = target,
                                !.data = w.data,
                                !.used = g.used + 1],
              oob |-> w.oob, written |-> w.written, read |-> w.read]

attach(s, entry, junk) == attach_item(grow(s, junk), entry)

\* remove_current that counts the capacity down with used.
remove_current_ShrinksCapacity(s) ==
    [s EXCEPT !.data = shift_left(s.data, s.current_index, s.used - 1),
              !.used = s.used - 1,
              !.capacity = s.capacity - 1]

\* remove_current without its shift loop.
remove_current_NoShift(s) == [s EXCEPT !.used = s.used - 1]

\* remove_current whose shift loop stops one item early.
remove_current_ShortShift(s) ==
    [s EXCEPT !.data = shift_left(s.data, s.current_index, s.used - 2),
              !.used = s.used - 1]

\* sequence::remove_current, past its assert
remove_current(s) ==
    [s EXCEPT !.data = shift_left(s.data, s.current_index, s.used - 1),
              !.used = s.used - 1]

\* operator= that does not copy current_index.
assign_KeepsCursor(s, source, junk) ==
    LET temp_data == copy_items(new_array(source.capacity, junk),
                                source.data, 0, source.used)
    IN  [s EXCEPT !.data = temp_data,
                  !.capacity = source.capacity,
                  !.used = source.used]

\* sequence::operator= for this != &source
assign(s, source, junk) ==
    LET temp_data == copy_items(new_array(source.capacity, junk),
                                source.data, 0, source.used)
    IN  [s EXCEPT !.data = temp_data,
                  !.capacity = source.capacity,
                  !.used = source.used,
                  !.current_index = source.current_index]


----------------------------------------------------------------------------
(* The program: calls of the member functions on the objects alive *)

Live == DOMAIN seq

CapBound == IF Live = {"a"} THEN MaxCap ELSE MaxCapPair

\* The call recorded: arg is the entry of insert and attach, the request of
\* resize, the value current or size returns, 1 or 0 for what is_item
\* returns, and 1 for an assignment to itself.
\* At the start it is the constructor, with its initial_capacity as arg.
Called(op, o, arg) ==
    /\ last' = [op |-> op, obj |-> o, arg |-> arg]
    /\ copied' = (copied \/ op = "copy" \/ (op = "assign" /\ arg = 0))

Init ==
    /\ \E ca \in 0 .. MaxCap :
         /\ \E ja \in Indeterminate(0, ctor_capacity(ca)) :
              seq = [o \in {"a"} |-> sequence_ctor(ca, ja)]
         /\ last = [op |-> "sequence", obj |-> "a", arg |-> ca]
    /\ halted = "none"
    /\ copied = FALSE

InitPair ==
    /\ \E ca \in 0 .. MaxCapPair, cb \in 0 .. MaxCapPair :
         /\ \E ja \in Indeterminate(0, ctor_capacity(ca)),
               jb \in Indeterminate(0, ctor_capacity(cb)) :
              seq = [o \in Objs |-> IF o = "a" THEN sequence_ctor(ca, ja)
                                               ELSE sequence_ctor(cb, jb)]
         /\ last = [op |-> "sequence", obj |-> "b", arg |-> cb]
    /\ halted = "none"
    /\ copied = FALSE

\* A member function returns with object o as s.
Returns(o, s) ==
    /\ seq' = [seq EXCEPT ![o] = s]
    /\ halted' = "none"

\* assert(is_item()) fails: the program is terminated, nothing was changed.
AssertFails ==
    /\ halted' = "assert"
    /\ UNCHANGED seq

\* new throws std::bad_alloc, which nothing in this code catches: the
\* program stops with object o as s.
BadAlloc(o, s) ==
    /\ seq' = [seq EXCEPT ![o] = s]
    /\ halted' = "bad_alloc"

\* A call on object o stored past the end of its array g.data (r.oob is
\* not empty) and would return r.s.  The behaviour is undefined; the
\* outcomes modelled are those of the usual builds:
\*   - the store lands in the allocator's slack and nothing sees it;
\*   - the array of the other object is the next heap block, and the store
\*     lands in its slot index - Slots(g.data);
\*   - a checking allocator or sanitizer stops the program at the store.
HeapOverflow(o, g, r) ==
    \/ Returns(o, r.s)
    \/ LET n    == Other(o)
           slot == r.oob[1][1] - Slots(g.data)
       IN  /\ n \in Live
           /\ slot \in DOMAIN seq[n].data
           /\ seq' = [seq EXCEPT ![o] = r.s,
                                 ![n].data[slot] = r.oob[1][2]]
           /\ halted' = "none"
    \/ /\ seq' = [seq EXCEPT ![o] = g]
       /\ halted' = "heap_overflow"

\* The indeterminate slots of the array the growth step allocates, if any.
GrowthJunk(s) ==
    IF needs_growth(s) THEN Indeterminate(s.used, grown_capacity(s))
                       ELSE {<<>>}

Resize(o, new_capacity) ==
    /\ halted = "none"
    /\ Called("resize", o, new_capacity)
    /\ \E junk \in Indeterminate(seq[o].used,
                                 resize_capacity(seq[o], new_capacity)) :
         Returns(o, resize(seq[o], new_capacity, junk))

ResizeBadAlloc(o, new_capacity) ==
    /\ halted = "none"
    /\ Called("resize", o, new_capacity)
    /\ BadAlloc(o, resize_bad_alloc(seq[o], new_capacity))

Start(o) ==
    /\ halted = "none"
    /\ Called("start", o, 0)
    /\ Returns(o, start(seq[o]))

Advance(o) ==
    /\ halted = "none"
    /\ Called("advance", o, 0)
    /\ IF assert_is_item(seq[o]) THEN Returns(o, advance(seq[o]))
                                 ELSE AssertFails

Size(o) ==
    /\ halted = "none"
    /\ Called("size", o, size(seq[o]))
    /\ Returns(o, seq[o])

IsItem(o) ==
    /\ halted = "none"
    /\ Called("is_item", o, IF is_item(seq[o]) THEN 1 ELSE 0)
    /\ Returns(o, seq[o])

Current(o) ==
    /\ halted = "none"
    /\ IF assert_is_item(seq[o])
       THEN /\ Called("current", o, current(seq[o]))
            /\ Returns(o, seq[o])
       ELSE /\ Called("current", o, 0)
            /\ AssertFails

RemoveCurrent(o) ==
    /\ halted = "none"
    /\ Called("remove_current", o, 0)
    /\ IF assert_is_item(seq[o]) THEN Returns(o, remove_current(seq[o]))
                                 ELSE AssertFails

Insert(o, entry) ==
    /\ halted = "none"
    /\ needs_growth(seq[o]) => grown_capacity(seq[o]) <= CapBound
    /\ Called("insert", o, entry)
    /\ \E junk \in GrowthJunk(seq[o]) :
         LET g == grow(seq[o], junk)
             r == insert_item(g, entry)
         IN  IF r.oob = <<>> THEN Returns(o, r.s) ELSE HeapOverflow(o, g, r)

InsertBadAlloc(o, entry) ==
    /\ halted = "none"
    /\ needs_growth(seq[o])
    /\ Called("insert", o, entry)
    /\ BadAlloc(o, resize_bad_alloc(seq[o], grown_capacity(seq[o])))

Attach(o, entry) ==
    /\ halted = "none"
    /\ needs_growth(seq[o]) => grown_capacity(seq[o]) <= CapBound
    /\ Called("attach", o, entry)
    /\ \E junk \in GrowthJunk(seq[o]) :
         LET g == grow(seq[o], junk)
             r == attach_item(g, entry)
         IN  IF r.oob = <<>> THEN Returns(o, r.s) ELSE HeapOverflow(o, g, r)

AttachBadAlloc(o, entry) ==
    /\ halted = "none"
    /\ needs_growth(seq[o])
    /\ Called("attach", o, entry)
    /\ BadAlloc(o, resize_bad_alloc(seq[o], grown_capacity(seq[o])))

\* Object o goes out of scope and a new object is copy-constructed in its
\* place from the other object.
CopyConstruct(o) ==
    /\ halted = "none"
    /\ Other(o) \in Live
    /\ Called("copy", o, 0)
    /\ \E junk \in Indeterminate(seq[Other(o)].used, seq[Other(o)].capacity) :
         Returns(o, copy_ctor(seq[Other(o)], junk))

\* The self-assignment check left out.
is_self_Never(o, source) == FALSE

\* this == &source, for *this object o
is_self(o, source) == o = source

\* o = source
Assign(o, source) ==
    /\ halted = "none"
    /\ Called("assign", o, IF o = source THEN 1 ELSE 0)
    /\ IF is_self(o, source)
       THEN Returns(o, seq[o])
       ELSE \E junk \in Indeterminate(seq[source].used, seq[source].capacity) :
              Returns(o, assign(seq[o], seq[source], junk))

AssignBadAlloc(o, source) ==
    /\ halted = "none"
    /\ o # source
    /\ last' = [op |-> "assign", obj |-> o, arg |-> 0]
    /\ UNCHANGED copied
    /\ BadAlloc(o, seq[o])

Next ==
    \/ \E o \in Live, new_capacity \in 0 .. CapBound : Resize(o, new_capacity)
    \/ \E o \in Live, new_capacity \in 0 .. CapBound :
         ResizeBadAlloc(o, new_capacity)
    \/ \E o \in Live : Start(o)
    \/ \E o \in Live : Advance(o)
    \/ \E o \in Live : Size(o)
    \/ \E o \in Live : IsItem(o)
    \/ \E o \in Live : Current(o)
    \/ \E o \in Live : RemoveCurrent(o)
    \/ \E o \in Live, entry \in Values : Insert(o, entry)
    \/ \E o \in Live, entry \in Values : InsertBadAlloc(o, entry)
    \/ \E o \in Live, entry \in Values : Attach(o, entry)
    \/ \E o \in Live, entry \in Values : AttachBadAlloc(o, entry)
    \/ \E o \in Live, source \in Live : Assign(o, source)

NextPair ==
    \/ Next
    \/ \E o \in Live : CopyConstruct(o)
    \/ \E o \in Live, source \in Live : AssignBadAlloc(o, source)

Spec == Init /\ [][Next]_vars

SpecPair == InitPair /\ [][NextPair]_vars


----------------------------------------------------------------------------
(* Vocabulary of the properties *)

\* The program is running: a member function can be called.
Running == halted = "none"

\* q with x placed so that t items of q precede it.
InsertAt(q, t, x) == SubSeq(q, 1, t) \o <<x>> \o SubSeq(q, t + 1, Len(q))

\* q without its item at 0-based position c.
RemoveAt(q, c) == SubSeq(q, 1, c) \o SubSeq(q, c + 2, Len(q))

\* start(), then n times: is_item(), current(), advance().  items are the
\* values current() returned, every says is_item() held before each
\* advance(), final is is_item() at the end.
RECURSIVE visit(_, _, _)
visit(s, n, acc) ==
    IF n = 0 \/ ~is_item(s)
    THEN [items |-> acc, every |-> n = 0, final |-> is_item(s)]
    ELSE visit(advance(s), n - 1, Append(acc, current(s)))

traversal(s) == visit(start(s), s.used, <<>>)

----------------------------------------------------------------------------
(* C1 *)

\* C1: in every reachable state of the program with two objects (resize,
\* start, advance, insert, attach, remove_current, copy construction and
\* assignment in any order), every object has 0 <= used <= capacity,
\* capacity >= 1 and 0 <= current_index <= used.
C1_Invariant ==
    \A o \in Live :
        /\ 0 <= seq[o].used
        /\ seq[o].used <= seq[o].capacity
        /\ seq[o].capacity >= 1
        /\ 0 <= seq[o].current_index
        /\ seq[o].current_index <= seq[o].used

\* A full object with no current item, just produced by the copy
\* constructor from an object that is itself full.
C1_Witness ==
    /\ Running
    /\ last.op = "copy"
    /\ \A o \in Live :
         /\ seq[o].used = 2
         /\ seq[o].capacity = 2
         /\ seq[o].current_index = 2

----------------------------------------------------------------------------
(* C2 *)

\* C2: from every reachable state in which insert can be called, with
\* contents q and cursor c, insert(x) returns with contents
\* q[0..t-1] ++ [x] ++ q[t..] and cursor t, where t = c if there is a
\* current item and t = 0 otherwise; current() is then x and size() has
\* grown by exactly 1.
C2_Insert ==
    Running =>
      \A o \in Live, x \in Values :
        \A junk \in GrowthJunk(seq[o]) :
          LET s == seq[o]
              t == IF s.current_index < s.used THEN s.current_index ELSE 0
              r == insert(s, x, junk).s
          IN  /\ Contents(r) = InsertAt(Contents(s), t, x)
              /\ r.current_index = t
              /\ is_item(r)
              /\ current(r) = x
              /\ size(r) = size(s) + 1

\* insert has just placed its entry strictly inside a sequence of four
\* items, between two items that differ from it.
C2_Witness ==
    /\ Running
    /\ last.op = "insert"
    /\ LET s == seq[last.obj]
       IN  /\ s.used = 4
           /\ s.current_index = 2
           /\ s.data[2] = last.arg
           /\ s.data[1] # last.arg
           /\ s.data[3] # last.arg

----------------------------------------------------------------------------
(* C3 *)

\* C3: from every reachable state in which attach can be called, with
\* contents q and cursor c, attach(x) returns with contents
\* q[0..t-1] ++ [x] ++ q[t..] and cursor t, where t = c + 1 if there is a
\* current item and t = used otherwise; current() is then x and size() has
\* grown by exactly 1.
C3_Attach ==
    Running =>
      \A o \in Live, x \in Values :
        \A junk \in GrowthJunk(seq[o]) :
          LET s == seq[o]
              t == IF s.current_index < s.used THEN s.current_index + 1
                                               ELSE s.used
              r == attach(s, x, junk).s
          IN  /\ Contents(r) = InsertAt(Contents(s), t, x)
              /\ r.current_index = t
              /\ is_item(r)
              /\ current(r) = x
              /\ size(r) = size(s) + 1

\* attach has just placed its entry strictly inside a sequence of four
\* items, between two items that differ from it.
C3_Witness ==
    /\ Running
    /\ last.op = "attach"
    /\ LET s == seq[last.obj]
       IN  /\ s.used = 4
           /\ s.current_index = 2
           /\ s.data[2] = last.arg
           /\ s.data[1] # last.arg
           /\ s.data[3] # last.arg

----------------------------------------------------------------------------
(* C4 *)

\* C4: from every reachable state with a current item at cursor c,
\* remove_current() returns with exactly the item at c deleted (items
\* before c unchanged, items after c one position to the left), size()
\* smaller by exactly 1 and the cursor still c; is_item() then holds
\* exactly when the removed item was not the last one, and current() is
\* then the item that followed the removed one.
C4_RemoveCurrent ==
    Running =>
      \A o \in Live :
        is_item(seq[o]) =>
          LET s == seq[o]
              c == s.current_index
              r == remove_current(s)
          IN  /\ Contents(r) = RemoveAt(Contents(s), c)
              /\ size(r) = size(s) - 1
              /\ r.current_index = c
              /\ is_item(r) <=> c # s.used - 1
              /\ is_item(r) => current(r) = s.data[c + 1]

\* remove_current has just removed an item from inside the sequence: items
\* remain on both sides and the two neighbours differ.
C4_Witness ==
    /\ Running
    /\ last.op = "remove_current"
    /\ LET s == seq[last.obj]
       IN  /\ s.used = 3
           /\ s.current_index = 1
           /\ s.data[0] # s.data[1]

----------------------------------------------------------------------------
(* C5 *)

\* C5: in every reachable state, with used = n and contents q, start()
\* followed by n rounds of current() and advance() returns q[0], ...,
\* q[n-1] in that order, is_item() holds before each advance() and fails
\* after the n-th; on an empty sequence start() alone leaves is_item()
\* false.
C5_Traversal ==
    Running =>
      \A o \in Live :
        LET v == traversal(seq[o])
        IN  /\ v.items = Contents(seq[o])
            /\ v.every
            /\ ~v.final

\* A traversal carried out by the program has reached the end of a
\* sequence of three items that are not all equal.
C5_Witness ==
    /\ Running
    /\ last.op = "advance"
    /\ LET s == seq[last.obj]
       IN  /\ s.used = 3
           /\ s.current_index = 3
           /\ s.data[0] # s.data[2]


----------------------------------------------------------------------------
(* C6 *)

PreconditionOps == {"advance", "current", "remove_current"}

\* C6: every call of advance(), current() or remove_current() made in a
\* state where is_item() is false stops the program on the assert, with
\* used, current_index, capacity and the array of every object as they
\* were: no such call returns or changes a sequence.
C6_PreconditionHalts ==
    [][ (last'.op \in PreconditionOps /\ ~is_item(seq[last'.obj]))
          => (halted' = "assert" /\ seq' = seq) ]_vars

\* remove_current was called on a non-empty sequence whose cursor was past
\* the last item, and the program stopped on the assert.
C6_Witness ==
    /\ halted = "assert"
    /\ last.op = "remove_current"
    /\ seq[last.obj].used = 2
    /\ seq[last.obj].current_index = 2

----------------------------------------------------------------------------
(* C7 *)

ResizingOps == {"resize", "insert", "attach"}

\* C7: when the allocation inside resize fails (resize called directly or
\* by the growth step of insert or attach), the sequence is exactly as it
\* was before the call: array, used, current_index and capacity.
C7_FailedResizeChangesNothing ==
    [][ (halted' = "bad_alloc" /\ last'.op \in ResizingOps)
          => seq' = seq ]_vars

----------------------------------------------------------------------------
(* C8 *)

Max3(x, y, z) ==
    LET m == IF x >= y THEN x ELSE y IN IF m >= z THEN m ELSE z

\* C8: from every reachable state and for every request new_capacity
\* (0 and values below used included), resize(new_capacity) returns with
\* capacity = max(new_capacity, used, 1), an array of that many slots, and
\* used, current_index and the items at 0 .. used-1 unchanged.
C8_Resize ==
    Running =>
      \A o \in Live, new_capacity \in 0 .. CapBound :
        LET s   == seq[o]
            cap == Max3(new_capacity, s.used, 1)
        IN  \A junk \in Indeterminate(s.used, cap) :
              LET r == resize(s, new_capacity, junk)
              IN  /\ r.capacity = cap
                  /\ Slots(r.data) = cap
                  /\ r.used = s.used
                  /\ r.current_index = s.current_index
                  /\ Contents(r) = Contents(s)

\* resize was asked for less than the sequence holds: the capacity is the
\* number of items, which are not all equal, and the cursor is inside.
C8_Witness ==
    /\ Running
    /\ last.op = "resize"
    /\ last.arg = 0
    /\ LET s == seq[last.obj]
       IN  /\ s.used = 3
           /\ s.capacity = 3
           /\ s.current_index = 1
           /\ s.data[0] # s.data[2]

----------------------------------------------------------------------------
(* C9 *)

MutatingOps ==
    {"resize", "start", "advance", "insert", "attach", "remove_current",
     "assign"}

\* What the claim compares: the members and the items of the sequence.
Observed(s) ==
    [used |-> s.used, current_index |-> s.current_index,
     capacity |-> s.capacity, contents |-> Contents(s)]

\* C9: once an object has been produced from the other by copy
\* construction or assignment, a mutating operation (resize, start,
\* advance, insert, attach, remove_current, assignment) on one object
\* leaves used, current_index, capacity and the contents of the other
\* object unchanged.
C9_Isolation ==
    [][ (copied /\ last'.op \in MutatingOps)
          => Observed(seq'[Other(last'.obj)])
               = Observed(seq[Other(last'.obj)]) ]_vars

----------------------------------------------------------------------------
(* C10 *)

\* C10: copy construction from S, and assignment T = S with T another
\* object than S, return with an object whose used, current_index and
\* capacity are those of S (the capacity, and as many slots, not only
\* used), whose first used items are those of S, whatever the target was
\* before; S is unchanged.
C10_Copy ==
    [][ (halted' = "none" /\ (last'.op = "copy" \/
                              (last'.op = "assign" /\ last'.arg = 0)))
          => LET t  == seq'[last'.obj]
                 S  == seq[Other(last'.obj)]
             IN  /\ t.used = S.used
                 /\ t.current_index = S.current_index
                 /\ t.capacity = S.capacity
                 /\ Slots(t.data) = S.capacity
                 /\ Contents(t) = Contents(S)
                 /\ seq'[Other(last'.obj)] = S ]_vars

\* An assignment from the other object has just returned: the target has
\* the source's two slots, its single item and its cursor.
C10_Witness ==
    /\ Running
    /\ last.op = "assign"
    /\ last.arg = 0
    /\ \A o \in Live :
         /\ seq[o].used = 1
         /\ seq[o].capacity = 2
         /\ seq[o].current_index = 0
         /\ seq[o].data[0] = 2


----------------------------------------------------------------------------
(* C11 *)

\* C11: an assignment of an object to itself returns with used,
\* current_index, capacity and the whole array (items and unused slots
\* alike, so no new array took its place) exactly as before the call.
C11_SelfAssignment ==
    [][ (last'.op = "assign" /\ last'.arg = 1)
          => (halted' = "none" /\ seq' = seq) ]_vars

\* A self-assignment has just returned on a sequence of three items, not
\* all equal, with unused slots and the cursor inside.
C11_Witness ==
    /\ Running
    /\ last.op = "assign"
    /\ last.arg = 1
    /\ LET s == seq[last.obj]
       IN  /\ s.used = 3
           /\ s.capacity = 5
           /\ s.current_index = 1
           /\ s.data[0] # s.data[2]


----------------------------------------------------------------------------
(* C12 *)

\* C12: in every reachable state is_item() is true exactly when
\* current_index < used: the test current_index != used of the code never
\* differs from it, because current_index > used is not reachable.
C12_IsItem ==
    \A o \in Live : is_item(seq[o]) <=> seq[o].current_index < seq[o].used

\* advance has just moved the cursor past the last of two items: is_item()
\* is false on a non-empty sequence.
C12_Witness ==
    /\ Running
    /\ last.op = "advance"
    /\ seq[last.obj].used = 2
    /\ seq[last.obj].current_index = 2
    /\ ~is_item(seq[last.obj])

----------------------------------------------------------------------------
(* C15 *)

\* C15: the constructor called with initial_capacity c gives capacity
\* max(c, 1), an array of that many slots, used = 0, current_index = 0 and
\* is_item() false; c = 0 gives capacity 1.
C15_Constructor ==
    last.op = "sequence" =>
      LET s == seq[last.obj]
          c == last.arg
      IN  /\ s.capacity = (IF c >= 1 THEN c ELSE 1)
          /\ Slots(s.data) = s.capacity
          /\ s.used = 0
          /\ s.current_index = 0
          /\ ~is_item(s)

\* The object was constructed with initial_capacity 0 and has one slot.
C15_Witness ==
    /\ last.op = "sequence"
    /\ last.arg = 0
    /\ seq[last.obj].capacity = 1
    /\ Slots(seq[last.obj].data) = 1


----------------------------------------------------------------------------
(* C13 *)

\* Where insert and attach place their entry (used and cursor on entry).
insert_target(s) == IF s.current_index < s.used THEN s.current_index ELSE 0

attach_target(s) ==
    IF s.current_index < s.used THEN s.current_index + 1 ELSE s.used

\* C13: in insert and attach, after the capacity check, every store goes
\* to an index in 0 .. used (used as on entry), and more precisely to an
\* index from the target up to used.
C13_StoresWithinUsed ==
    Running =>
      \A o \in Live, x \in Values :
        \A junk \in GrowthJunk(seq[o]) :
          LET s == seq[o]
              g == grow(s, junk)
          IN  /\ insert_item(g, x).written \subseteq 0 .. s.used
              /\ insert_item(g, x).written \subseteq insert_target(s) .. s.used
              /\ attach_item(g, x).written \subseteq 0 .. s.used
              /\ attach_item(g, x).written \subseteq attach_target(s) .. s.used

----------------------------------------------------------------------------
(* C16 *)

\* The indices the copy loop (lines 68-70, 93-95, 227-229) uses, in the
\* array it reads and in the array it writes.
RECURSIVE copy_touched(_, _)
copy_touched(index, n) ==
    IF index < n THEN {index} \cup copy_touched(index + 1, n) ELSE {}

\* The indices the shift loop of remove_current (lines 207-209) uses.
RECURSIVE shift_left_touched(_, _)
shift_left_touched(index, last_index) ==
    IF index < last_index
    THEN {index, index + 1} \cup shift_left_touched(index + 1, last_index)
    ELSE {}

\* The indices of array d.
Within(d) == 0 .. Slots(d) - 1

\* C16: every index at which a member function loads from or stores to an
\* array is an index of that array as allocated at that moment
\* (0 <= index < capacity): in insert and attach after the growth step, in
\* resize, remove_current and current, in the copy constructor and in
\* operator=.
C16_IndicesWithinArray ==
    Running =>
      \A o \in Live :
        LET s == seq[o]
        IN  /\ \A x \in Values, junk \in GrowthJunk(s) :
                 LET g == grow(s, junk)
                     i == insert_item(g, x)
                     a == attach_item(g, x)
                 IN  /\ i.written \cup i.read \subseteq Within(g.data)
                     /\ a.written \cup a.read \subseteq Within(g.data)
            /\ \A new_capacity \in 0 .. CapBound :
                 /\ copy_touched(0, s.used) \subseteq Within(s.data)
                 /\ copy_touched(0, s.used)
                      \subseteq 0 .. resize_capacity(s, new_capacity) - 1
            /\ is_item(s) =>
                 /\ s.current_index \in Within(s.data)
                 /\ shift_left_touched(s.current_index, s.used - 1)
                      \subseteq Within(s.data)
            /\ \A source \in Live \ {o} :
                 /\ copy_touched(0, seq[source].used)
                      \subseteq Within(seq[source].data)
                 /\ copy_touched(0, seq[source].used)
                      \subseteq 0 .. seq[source].capacity - 1


----------------------------------------------------------------------------
(* C14 *)

\* floor(1.25 * c) + 1
Grown(c) == c + c \div 4 + 1

\* The capacity insert and attach must leave, from used and capacity on
\* entry.
ExpectedCapacity(s) ==
    IF s.used = s.capacity THEN Grown(s.capacity) ELSE s.capacity

\* A sequence constructed with capacity 1, then insert(x), insert(y) with
\* x # y: the capacity is at least 2 and a traversal from start() returns
\* y, x.
C14_GrowthScenario ==
    \A x \in Values :
      \A y \in Values \ {x}, j0 \in Indeterminate(0, 1) :
        LET s0 == sequence_ctor(1, j0)
            s1 == insert(s0, x, <<>>).s
        IN  \A j1 \in GrowthJunk(s1) :
              LET s2 == insert(s1, y, j1).s
              IN  /\ s2.capacity >= 2
                  /\ Slots(s2.data) = s2.capacity
                  /\ traversal(s2).items = <<y, x>>
                  /\ ~traversal(s2).final

\* C14: insert and attach change the capacity only when used = capacity
\* on entry, and then to exactly floor(1.25 * capacity) + 1, which exceeds
\* used before the entry is placed; when used < capacity they leave it
\* unchanged.  In particular a sequence constructed with capacity 1 holds,
\* after two inserts, both items in a capacity of at least 2.
C14_Growth ==
    /\ Running =>
         \A o \in Live, x \in Values :
           \A junk \in GrowthJunk(seq[o]) :
             LET s == seq[o]
                 i == insert(s, x, junk).s
                 a == attach(s, x, junk).s
             IN  /\ ExpectedCapacity(s) > s.used
                 /\ grow(s, junk).capacity = ExpectedCapacity(s)
                 /\ i.capacity = ExpectedCapacity(s)
                 /\ Slots(i.data) = ExpectedCapacity(s)
                 /\ a.capacity = ExpectedCapacity(s)
                 /\ Slots(a.data) = ExpectedCapacity(s)
    /\ C14_GrowthScenario

\* insert has just returned on a sequence of five items in six slots: the
\* capacity a full array of four slots grows to.
C14_Witness ==
    /\ Running
    /\ last.op = "insert"
    /\ seq[last.obj].used = 5
    /\ seq[last.obj].capacity = 6
    /\ seq[last.obj].current_index = 3

----------------------------------------------------------------------------
(* C17 *)

\* C17: from every reachable state and for every x, insert(x) followed at
\* once by remove_current(), and attach(x) followed at once by
\* remove_current(), return with used and the items at 0 .. used-1 as
\* before the two calls, and with the cursor at the index the entry was
\* placed at (the capacity may have grown).
C17_InsertThenRemove ==
    Running =>
      \A o \in Live, x \in Values :
        \A junk \in GrowthJunk(seq[o]) :
          LET s  == seq[o]
              i  == insert(s, x, junk).s
              a  == attach(s, x, junk).s
              ri == remove_current(i)
              ra == remove_current(a)
          IN  /\ assert_is_item(i)
              /\ ri.used = s.used
              /\ Contents(ri) = Contents(s)
              /\ ri.current_index = insert_target(s)
              /\ assert_is_item(a)
              /\ ra.used = s.used
              /\ Contents(ra) = Contents(s)
              /\ ra.current_index = attach_target(s)

\* remove_current has just returned on a sequence of four items in six
\* slots with the cursor inside: where insert then remove_current on a full
\* array of four slots ends.
C17_Witness ==
    /\ Running
    /\ last.op = "remove_current"
    /\ LET s == seq[last.obj]
       IN  /\ s.used = 4
           /\ s.capacity = 6
           /\ s.current_index = 2
           /\ s.data[1] # s.data[2]


----------------------------------------------------------------------------
(* C18 *)

ConstantOps == {"size", "is_item", "current"}

\* C18: a call of start() or advance() that returns changes only
\* current_index (start sets it to 0, advance adds exactly 1): used,
\* capacity and the array are as before; remove_current() leaves the
\* capacity and the number of slots as they were; size(), is_item() and
\* current() change nothing.
C18_Frame ==
    [][ halted' = "none" =>
          LET s == seq[last'.obj]
              r == seq'[last'.obj]
          IN  /\ last'.op = "start" =>
                   /\ r.current_index = 0
                   /\ r.used = s.used
                   /\ r.capacity = s.capacity
                   /\ r.data = s.data
              /\ last'.op = "advance" =>
                   /\ r.current_index = s.current_index + 1
                   /\ r.used = s.used
                   /\ r.capacity = s.capacity
                   /\ r.data = s.data
              /\ last'.op = "remove_current" =>
                   /\ r.capacity = s.capacity
                   /\ Slots(r.data) = Slots(s.data)
              /\ last'.op \in ConstantOps => seq' = seq ]_vars

\* advance has just moved the cursor from the second to the third of four
\* items in an array with unused slots.
C18_Witness ==
    /\ Running
    /\ last.op = "advance"
    /\ LET s == seq[last.obj]
       IN  /\ s.used = 4
           /\ s.capacity = 6
           /\ s.current_index = 2
           /\ s.data[0] # s.data[3]

=============================================================================
